---- MODULE Spec2Model ----
(***************************************************************************)
(* FIRST and FOLLOW of a context-free grammar, as computed by              *)
(* Grammar::first and Grammar::follow (Grammar.cpp).                       *)
(*                                                                         *)
(* The state is one Grammar object (non_terminals, terminals, rules,       *)
(* start) together with the last call made on it and what that call        *)
(* produced.  first and follow are const member functions: a call is one   *)
(* step that leaves the grammar alone.  Both are plain recursions without  *)
(* memoisation, so every operator below carries the chain of active calls  *)
(* (the C++ call stack); a chain longer than MaxDepth is the stack running *)
(* out, which ends the call without a set.                                 *)
(***************************************************************************)
EXTENDS Integers, Sequences, FiniteSets

VARIABLES non_terminals, terminals, rules, start, call, result, prev

vars == <<non_terminals, terminals, rules, start, call, result, prev>>

grammar == <<non_terminals, terminals, rules, start>>

(***************************************************************************)
(* Bounds of the model.                                                    *)
(***************************************************************************)
\* symbols a rule set holds in total, heads and bodies together
MaxSize == 5
\* symbols in one rule body
MaxBody == 2
\* symbols in a sequence handed to first
MaxSeq == 1
\* frames the call stack holds before it runs out
MaxDepth == 8

(***************************************************************************)
(* Symbols.  A symbol is a std::string; symbol{} is the empty string and   *)
(* stands for the empty derivation.                                        *)
(***************************************************************************)
Empty == ""

Symbols == {"S", "A", "a", "b"}

\* std::string operator< on the symbols of the model (ASCII order)
Rank == [s \in Symbols \cup {Empty} |->
            CASE s = Empty -> 0
              [] s = "A" -> 1
              [] s = "S" -> 2
              [] s = "a" -> 3
              [] s = "b" -> 4]

SeqsUpTo(S, n) == UNION {[1..k -> S] : k \in 0..n}

\* typedef std::pair<symbol, symbol_sequence> rule
Rule(h, b) == [first |-> h, second |-> b]

Heads == {"S", "A"}

AllRules == {Rule(h, b) : h \in Heads, b \in SeqsUpTo(Symbols \cup {Empty}, MaxBody)}

Weight(r) == 1 + Len(r.second)

RECURSIVE Size(_)
Size(rs) == IF rs = {} THEN 0
            ELSE LET r == CHOOSE x \in rs : TRUE IN Weight(r) + Size(rs \ {r})

RECURSIVE RuleSetsOfSize(_)
RuleSetsOfSize(n) ==
    IF n = 0 THEN {{}}
    ELSE LET P == RuleSetsOfSize(n - 1)
         IN  P \cup {s \cup {r} : <<s, r>> \in
                       {p \in P \X AllRules :
                           p[2] \notin p[1] /\ Size(p[1]) + Weight(p[2]) <= n}}

RuleSets == RuleSetsOfSize(MaxSize)

\* std::vector operator< : lexicographic
RECURSIVE SeqLess(_, _)
SeqLess(s, t) ==
    IF t = <<>> THEN FALSE
    ELSE IF s = <<>> THEN TRUE
    ELSE IF Rank[Head(s)] # Rank[Head(t)] THEN Rank[Head(s)] < Rank[Head(t)]
    ELSE SeqLess(Tail(s), Tail(t))

\* std::pair operator<
RuleLess(r1, r2) ==
    \/ Rank[r1.first] < Rank[r2.first]
    \/ r1.first = r2.first /\ SeqLess(r1.second, r2.second)

\* the order in which a std::set<rule> is iterated
RECURSIVE SortRules(_)
SortRules(rs) ==
    IF rs = {} THEN <<>>
    ELSE LET m == CHOOSE x \in rs : \A y \in rs \ {x} : RuleLess(x, y)
         IN  <<m>> \o SortRules(rs \ {m})

\* the declarations a grammar comes with: all four symbols declared, or
\* only S and a (A and b are then undeclared symbols)
Decls == { [nt |-> {"S", "A"}, t |-> {"a", "b"}],
           [nt |-> {"S"},      t |-> {"a"}] }

(***************************************************************************)
(* Grammar.h                                                               *)
(***************************************************************************)
\* variant: every symbol that is not a declared non-terminal counts as a terminal
has_terminal_or_undeclared(s) == s \in terminals \/ s \notin non_terminals

has_terminal(s) == s \in terminals

has_non_terminal(s) == s \in non_terminals

(***************************************************************************)
(* What a call produces: a symbol_set, or no set at all when the call      *)
(* stack ran out (stack is then the chain of calls that were active).      *)
(***************************************************************************)
Ret(s) == [ok |-> TRUE, set |-> s, stack |-> <<>>]

Overflow(stk) == [ok |-> FALSE, set |-> {}, stack |-> stk]

Frame(f, a) == [fn |-> f, arg |-> a]

(***************************************************************************)
(* Grammar::first                                                          *)
(***************************************************************************)
RECURSIVE first_single(_, _), first_single_rules(_, _, _, _), first_single_body(_, _, _, _, _)

\* the lambda first_single, called with stk the calls already active
first_single(sym, stk) ==
    LET here == Append(stk, Frame("first_single", <<sym>>))
    IN  IF Len(here) > MaxDepth THEN Overflow(here)
        ELSE IF sym = Empty \/ has_terminal(sym) THEN Ret({sym})
        ELSE first_single_rules(sym, 1, {}, here)

\* variant: the loop over the rules returns after the first rule whose head is
\* the symbol
first_single_rules_first_match(sym, i, first_set, here) ==
    IF i > Len(rules) THEN Ret(first_set)
    ELSE IF rules[i].first # sym THEN first_single_rules(sym, i + 1, first_set, here)
    ELSE first_single_body(sym, rules[i].second, 1, first_set, here)

\* for (const rule& r : this->rules), from the i-th rule on
first_single_rules(sym, i, first_set, here) ==
    IF i > Len(rules) THEN Ret(first_set)
    ELSE IF rules[i].first # sym THEN first_single_rules(sym, i + 1, first_set, here)
    ELSE LET b == first_single_body(sym, rules[i].second, 1, first_set, here)
         IN  IF ~b.ok THEN b
             ELSE first_single_rules(sym, i + 1, b.set, here)

\* variant: nothing is inserted when the end of the body is reached
first_single_body_no_empty(sym, body, it, first_set, here) ==
    IF it > Len(body) THEN Ret(first_set)
    ELSE IF body[it] = sym THEN first_single_body(sym, body, it + 1, first_set, here)
    ELSE LET sub_first_set == first_single(body[it], here)
         IN  IF ~sub_first_set.ok THEN sub_first_set
             ELSE IF Empty \notin sub_first_set.set
                  THEN Ret(first_set \cup sub_first_set.set)
                  ELSE first_single_body(sym, body, it + 1,
                           first_set \cup (sub_first_set.set \ {Empty}), here)

\* for (it = r.second.begin(); ...) and the insert after it, from position it on
first_single_body(sym, body, it, first_set, here) ==
    IF it > Len(body) THEN Ret(first_set \cup {Empty})
    ELSE IF body[it] = sym THEN first_single_body(sym, body, it + 1, first_set, here)
    ELSE LET sub_first_set == first_single(body[it], here)
         IN  IF ~sub_first_set.ok THEN sub_first_set
             ELSE IF Empty \notin sub_first_set.set
                  THEN Ret(first_set \cup sub_first_set.set)
                  ELSE first_single_body(sym, body, it + 1,
                           first_set \cup (sub_first_set.set \ {Empty}), here)

RECURSIVE first_seq(_, _, _, _)

\* variant: the loop over seq does not stop at a symbol whose FIRST set lacks
\* the empty symbol
first_seq_no_break(seq, it, first_set, here) ==
    IF it > Len(seq) THEN Ret(first_set \cup {Empty})
    ELSE LET sub_first_set == first_single(seq[it], here)
         IN  IF ~sub_first_set.ok THEN sub_first_set
             ELSE first_seq(seq, it + 1,
                      first_set \cup (sub_first_set.set \ {Empty}), here)

\* the loop over seq at the end of first, from position it on
first_seq(seq, it, first_set, here) ==
    IF it > Len(seq) THEN Ret(first_set \cup {Empty})
    ELSE LET sub_first_set == first_single(seq[it], here)
         IN  IF ~sub_first_set.ok THEN sub_first_set
             ELSE IF Empty \notin sub_first_set.set
                  THEN Ret(first_set \cup sub_first_set.set)
                  ELSE first_seq(seq, it + 1,
                           first_set \cup (sub_first_set.set \ {Empty}), here)

first(seq, stk) ==
    LET here == Append(stk, Frame("first", seq))
    IN  IF Len(here) > MaxDepth THEN Overflow(here)
        ELSE IF seq = <<>> THEN Ret({})
        ELSE first_seq(seq, 1, {}, here)

(***************************************************************************)
(* Grammar::follow                                                         *)
(***************************************************************************)
\* std::find(r.second.begin(), r.second.end(), nt): the first position of nt
\* in body, Len(body) + 1 when there is none
find(body, nt) ==
    IF \E i \in 1..Len(body) : body[i] = nt
    THEN CHOOSE i \in 1..Len(body) :
             body[i] = nt /\ \A j \in 1..(i - 1) : body[j] # nt
    ELSE Len(body) + 1

RECURSIVE follow(_, _), follow_rules(_, _, _, _)

\* variant: the empty symbol is inserted whether or not nt is the start symbol
follow_always_seeded(nt, stk) ==
    LET here == Append(stk, Frame("follow", <<nt>>))
    IN  IF Len(here) > MaxDepth THEN Overflow(here)
        ELSE follow_rules(nt, 1, {Empty}, here)

follow(nt, stk) ==
    LET here == Append(stk, Frame("follow", <<nt>>))
    IN  IF Len(here) > MaxDepth THEN Overflow(here)
        ELSE follow_rules(nt, 1, IF nt = start THEN {Empty} ELSE {}, here)

\* for (const rule& r : this->rules), from the i-th rule on
follow_rules(nt, i, follow_set, here) ==
    IF i > Len(rules) THEN Ret(follow_set)
    ELSE LET r == rules[i]
             found == find(r.second, nt)
             after == SubSeq(r.second, found + 1, Len(r.second))
             first_of_after == first(after, here)
             with_first == follow_set \cup (first_of_after.set \ {Empty})
             sub_follow_set == follow(r.first, here)
         IN  IF r.first = nt THEN follow_rules(nt, i + 1, follow_set, here)
             ELSE IF found > Len(r.second) THEN follow_rules(nt, i + 1, follow_set, here)
             ELSE IF ~first_of_after.ok THEN first_of_after
             ELSE IF after = <<>> \/ Empty \in first_of_after.set
                  THEN IF ~sub_follow_set.ok THEN sub_follow_set
                       ELSE follow_rules(nt, i + 1, with_first \cup sub_follow_set.set, here)
                  ELSE follow_rules(nt, i + 1, with_first, here)

(***************************************************************************)
(* The state machine.                                                      *)
(***************************************************************************)
NoCall == Frame("none", <<>>)

NoPrev == <<>>

\* a Grammar handed over by its loader, no call made on it yet
Init ==
    \E d \in Decls, rs \in RuleSets :
        /\ non_terminals = d.nt
        /\ terminals = d.t
        /\ rules = SortRules(rs)
        /\ start = "S"
        /\ call = NoCall
        /\ result = Ret({})
        /\ prev = NoPrev

\* g.first(seq)
First(seq) ==
    /\ call = NoCall
    /\ call' = Frame("first", seq)
    /\ result' = first(seq, <<>>)
    /\ prev' = NoPrev
    /\ UNCHANGED grammar

\* g.follow(nt)
Follow(nt) ==
    /\ call = NoCall
    /\ call' = Frame("follow", <<nt>>)
    /\ result' = follow(nt, <<>>)
    /\ prev' = NoPrev
    /\ UNCHANGED grammar

\* the caller has taken the set (main writes it out) and goes on to its next call
Consume ==
    /\ call # NoCall
    /\ call' = NoCall
    /\ result' = Ret({})
    /\ prev' = NoPrev
    /\ UNCHANGED grammar

Next ==
    \/ Consume
    \/ \E seq \in SeqsUpTo(Symbols, MaxSeq) : First(seq)
    \/ \E nt \in Symbols \cup {Empty} : Follow(nt)

Spec == Init /\ [][Next]_vars

(***************************************************************************)
(* The same call made again with the rule set iterated in another order.   *)
(* A std::set<rule> is iterated in the order of the symbols' spelling;     *)
(* Reorder puts the rules in another order once a call has returned, Again *)
(* then makes that call once more and keeps in prev what it returned       *)
(* before.                                                                 *)
(***************************************************************************)
Orders(seq) ==
    {p \in [DOMAIN seq -> {seq[i] : i \in DOMAIN seq}] :
        \A i \in DOMAIN seq : \E j \in DOMAIN seq : p[j] = seq[i]}

Reorder ==
    /\ call # NoCall
    /\ prev = NoPrev
    /\ rules = SortRules({rules[i] : i \in DOMAIN rules})
    /\ \E p \in Orders(rules) : p # rules /\ rules' = p
    /\ UNCHANGED <<non_terminals, terminals, start, call, result, prev>>

Again ==
    /\ call # NoCall
    /\ prev = NoPrev
    /\ rules # SortRules({rules[i] : i \in DOMAIN rules})
    /\ prev' = <<result>>
    /\ result' = IF call.fn = "first" THEN first(call.arg, <<>>)
                                      ELSE follow(call.arg[1], <<>>)
    /\ UNCHANGED <<grammar, call>>

NextOrder ==
    \/ \E seq \in SeqsUpTo(Symbols, MaxSeq) : First(seq)
    \/ \E nt \in Symbols \cup {Empty} : Follow(nt)
    \/ Reorder
    \/ Again

SpecOrder == Init /\ [][NextOrder]_vars

(***************************************************************************)
(* Termination.                                                            *)
(***************************************************************************)
\* the chain of calls that was active when the stack ran out holds two calls
\* of f with the same argument: f, a function of its argument and the
\* grammar alone, was entered again from inside itself and so recurses
\* without end
Reenters(f) ==
    \E i, j \in DOMAIN result.stack :
        /\ i < j
        /\ result.stack[i].fn = f
        /\ result.stack[i] = result.stack[j]

\* the stack runs out only under a recursion that never ends: no call that
\* would return needs more than MaxDepth frames
StackLimitIsDivergence ==
    ~result.ok => Reenters("first_single") \/ Reenters("follow")

\* C1: a call to first on a non-empty sequence terminates and returns a set,
\* whatever the grammar: the chain of nested first_single calls never
\* re-enters the same symbol
C1_FirstTerminates ==
    (call.fn = "first" /\ call.arg # <<>>) =>
        result.ok /\ ~Reenters("first_single")

\* C2: a call to follow terminates and returns a set, whatever the grammar
\* and the argument: the chain of nested follow calls never re-enters the
\* same head (a follow that does not return because a first inside it does
\* not is left to C1)
C2_FollowTerminates ==
    call.fn = "follow" => ~Reenters("follow")

(***************************************************************************)
(* The reference FIRST and FOLLOW sets: the least fixed points of the      *)
(* textbook equations, reached by iterating from empty sets.               *)
(***************************************************************************)
AllSymbols == Symbols \cup {Empty}

RuleSet == {rules[i] : i \in DOMAIN rules}

\* heads are declared non-terminals, bodies hold declared symbols or the
\* empty symbol, the start symbol is a declared non-terminal and no symbol is
\* declared twice
WellFormed ==
    /\ non_terminals \cap terminals = {}
    /\ Empty \notin non_terminals \cup terminals
    /\ start \in non_terminals
    /\ \A r \in RuleSet :
          /\ r.first \in non_terminals
          /\ \A i \in DOMAIN r.second :
                r.second[i] \in non_terminals \cup terminals \cup {Empty}

\* FIRST of a sequence, given FIRST of every symbol
RECURSIVE SeqFirst(_, _)
SeqFirst(F, seq) ==
    IF seq = <<>> THEN {Empty}
    ELSE (F[Head(seq)] \ {Empty}) \cup
         (IF Empty \in F[Head(seq)] THEN SeqFirst(F, Tail(seq)) ELSE {})

RefFirstStep(F) ==
    [x \in AllSymbols |->
        IF x = Empty \/ x \in terminals THEN {x}
        ELSE UNION {SeqFirst(F, r.second) : r \in {q \in RuleSet : q.first = x}}]

RECURSIVE RefFirstFrom(_)
RefFirstFrom(F) ==
    LET G == RefFirstStep(F) IN IF G = F THEN F ELSE RefFirstFrom(G)

RefFirst == RefFirstFrom([x \in AllSymbols |-> {}])

\* the places where x occurs in a rule body
Occurrences(x) ==
    {<<r, i>> \in RuleSet \X (1..MaxBody) : i <= Len(r.second) /\ r.second[i] = x}

After(r, i) == SubSeq(r.second, i + 1, Len(r.second))

RefFollowStep(FO) ==
    [x \in AllSymbols |->
        (IF x = start THEN {Empty} ELSE {}) \cup
        UNION { (SeqFirst(RefFirst, After(o[1], o[2])) \ {Empty}) \cup
                (IF Empty \in SeqFirst(RefFirst, After(o[1], o[2]))
                 THEN FO[o[1].first] ELSE {}) : o \in Occurrences(x) }]

RECURSIVE RefFollowFrom(_)
RefFollowFrom(FO) ==
    LET G == RefFollowStep(FO) IN IF G = FO THEN FO ELSE RefFollowFrom(G)

RefFollow == RefFollowFrom([x \in AllSymbols |-> {}])

\* C3: on a well-formed grammar the set first returns for a non-empty
\* sequence is the reference FIRST set of that sequence
C3_FirstIsReference ==
    (call.fn = "first" /\ call.arg # <<>> /\ WellFormed /\ result.ok) =>
        result.set = SeqFirst(RefFirst, call.arg)

\* C4: on a well-formed grammar the set follow returns for a declared
\* non-terminal is the reference FOLLOW set of that non-terminal
C4_FollowIsReference ==
    (call.fn = "follow" /\ has_non_terminal(call.arg[1]) /\ WellFormed /\ result.ok) =>
        result.set = RefFollow[call.arg[1]]

\* C5: a call made again with the rules iterated in another order ends the
\* same way and returns the same set
C5_OrderIndependent ==
    prev # NoPrev => result.ok = prev[1].ok /\ result.set = prev[1].set

C5_Witness ==
    /\ prev # NoPrev
    /\ result.ok
    /\ Cardinality(result.set) >= 2
    /\ \E i, j \in DOMAIN rules : i # j /\ rules[i].first = rules[j].first

\* C6 as claimed: on a well-formed grammar follow of a symbol that is not a
\* declared non-terminal returns the empty set
C6_FollowOfNonNonTerminalIsEmpty ==
    (call.fn = "follow" /\ WellFormed /\ ~has_non_terminal(call.arg[1])) =>
        result = Ret({})

\* C6 as amended: on a well-formed grammar follow of a symbol that is not a
\* declared non-terminal and occurs in no rule body (so every symbol absent
\* from the grammar) returns the empty set
C6_FollowOfAbsentSymbolIsEmpty ==
    (/\ call.fn = "follow"
     /\ WellFormed
     /\ ~has_non_terminal(call.arg[1])
     /\ Occurrences(call.arg[1]) = {}) =>
        result = Ret({})

C6_Witness ==
    /\ call.fn = "follow"
    /\ WellFormed
    /\ call.arg[1] \notin non_terminals \cup terminals \cup {Empty}
    /\ Occurrences(call.arg[1]) = {}
    /\ Len(rules) >= 2
    /\ result = Ret({})

\* C7: whatever the grammar and the argument, a set returned by first or by
\* follow holds only declared terminals and the empty symbol
C7_OnlyTerminals ==
    (call # NoCall /\ result.ok) => result.set \subseteq terminals \cup {Empty}

C7_Witness ==
    /\ call.fn = "first"
    /\ call.arg # <<>>
    /\ call.arg[1] \notin non_terminals \cup terminals
    /\ result.ok
    /\ result.set \cap terminals # {}

HasEmptyRule(A) ==
    \E r \in RuleSet : r.first = A /\ r.second \in {<<>>, <<Empty>>}

\* C9: for a non-terminal A with a rule of empty body, whatever its other
\* rules, the set first([A]) returns holds the empty symbol
C9_EmptyRuleGivesEmpty ==
    (/\ call.fn = "first"
     /\ Len(call.arg) = 1
     /\ has_non_terminal(call.arg[1])
     /\ HasEmptyRule(call.arg[1])
     /\ result.ok) =>
        Empty \in result.set

C9_Witness ==
    /\ call.fn = "first"
    /\ Len(call.arg) = 1
    /\ has_non_terminal(call.arg[1])
    /\ \E r \in RuleSet : r.first = call.arg[1] /\ r.second = <<>>
    /\ \E r \in RuleSet : r.first = call.arg[1] /\ Len(r.second) = 2
    /\ result.ok
    /\ Empty \in result.set
    /\ result.set \cap terminals # {}

\* C10: follow(X) treats the rules whose head is X like all other rules: for
\* every rule X = alpha X beta the terminals of first(beta) are in follow(X)
C10_OwnRulesCount ==
    (call.fn = "follow" /\ result.ok) =>
        \A o \in Occurrences(call.arg[1]) :
            (o[1].first = call.arg[1] /\ first(After(o[1], o[2]), <<>>).ok) =>
                (first(After(o[1], o[2]), <<>>).set \ {Empty}) \subseteq result.set

\* C11: follow(X) takes every occurrence of X in a rule body into account,
\* not only the first: for every rule h = B and every position i with
\* B[i] = X, the terminals of first(B[i+1..]) are in follow(X), and so is
\* follow(h) when B[i+1..] is empty or its FIRST set holds the empty symbol
\* (stated for a declared non-terminal X and the rules follow looks at,
\* h # X; the others are C10's)
C11_EveryOccurrenceCounts ==
    (call.fn = "follow" /\ has_non_terminal(call.arg[1]) /\ result.ok) =>
        \A o \in Occurrences(call.arg[1]) :
            (o[1].first # call.arg[1] /\ first(After(o[1], o[2]), <<>>).ok) =>
                /\ (first(After(o[1], o[2]), <<>>).set \ {Empty}) \subseteq result.set
                /\ ( /\ \/ After(o[1], o[2]) = <<>>
                        \/ Empty \in first(After(o[1], o[2]), <<>>).set
                     /\ follow(o[1].first, <<>>).ok ) =>
                        follow(o[1].first, <<>>).set \subseteq result.set

====
